---- MODULE Spec2Model ----
(***************************************************************************)
(* Realtime event layer and greeting lifecycle of the greeting-card        *)
(* server (server.ts): socket.io rooms, the greeting write paths (POST and *)
(* PUT /api/greetings, the update_greeting_status and admin_moderate       *)
(* socket handlers) and the events they emit.                              *)
(*                                                                         *)
(* Every handler is async: it runs up to its `await pool.query(...)`, the  *)
(* database executes the statement atomically, and the rest of the handler *)
(* runs later as a continuation.  An action of the model is one such       *)
(* segment: the statement's execution together with the code before it,    *)
(* then one action per continuation.  A statement that throws sends the    *)
(* continuation to the handler's catch block, which only answers the       *)
(* caller.  Any statement may fail (dbFails).                              *)
(*                                                                         *)
(* ops and events are the history of a behaviour: what each invocation was *)
(* given, found and answered, and which connections received each event.   *)
(***************************************************************************)
EXTENDS Integers, Sequences, FiniteSets, TLC

VARIABLES
    connUser,       \* socket.user.id of each connection slot, NoUser when not connected
    rooms,          \* the socket.io rooms each connection has joined
    greetings,      \* table Greetings: id -> row
    notifications,  \* table Notifications: set of rows
    ops,            \* the handler invocations so far: inputs, database outcome, answer
    events,         \* the events emitted so far, with the connections that received each
    handshake,      \* the token each connection slot last presented in its handshake
    lastReq,        \* per connection and room: the last of join_group / leave_group it sent
    messages,       \* table GroupChatMessages: set of rows
    users,          \* table Users: set of rows (id, email)
    store           \* the client store's notifications_state, with its requests in flight

vars == <<connUser, rooms, greetings, notifications, ops, events, handshake, lastReq,
          messages, users, store>>

----------------------------------------------------------------------------
(* Bounds *)

MaxOps == 2     \* handler invocations in a behaviour
MaxReads == 2   \* mark-read requests in a behaviour
MaxCalls == 3   \* calls of the client store's notification actions in a behaviour


----------------------------------------------------------------------------
(* The universe: ids of the seed data *)

UserIds == {"user1", "user2", "admin1"}
GroupIds == {"group1"}
RoomIds == UserIds \cup GroupIds
GreetingIds == {"greet2", "greet3", "greet5"}     \* greet5 is not stored at first
CreateIds == {"greet2", "greet5", "greet6"}       \* ids a creation may carry
Statuses == {"sent", "pending", "delivered", "failed"}
Conns == {1, 2}
NoUser == "-"

Role(u) == IF u = "admin1" THEN "admin" ELSE "user"

\* Where the identity of a connection does not matter to the handlers, slot 1 is
\* user2's device and slot 2 is admin1's.
SlotUser(c) == IF c = 1 THEN "user2" ELSE "admin1"

SeedGreetings ==
    [g \in {"greet2", "greet3"} |->
        IF g = "greet2"
        THEN [sender_id |-> "user1", recipient_type |-> "group", recipient_id |-> "group1",
              status |-> "pending", scheduled_at |-> "future"]
        ELSE [sender_id |-> "admin1", recipient_type |-> "user", recipient_id |-> "user3",
              status |-> "delivered", scheduled_at |-> "null"]]

Recipients == {<<"user", "user2">>, <<"group", "group1">>}
Senders == {"user1"}
Schedules == {"null", "past", "future"}

\* JWTs: whether jwt.verify accepts the token, and the user_id of its payload.
\* user9 is no row of Users (a deleted account whose token has not expired).
NoToken == [sig |-> "-", user_id |-> "-"]
TokenOf(u) == [sig |-> "ok", user_id |-> u]
Tokens == {NoToken, [sig |-> "bad", user_id |-> "user1"], TokenOf("user2"),
           TokenOf("admin1"), TokenOf("user9")}

NoReqs == [r \in RoomIds |-> "none"]

\* the seeded users' rows, as far as registration reads them
SeedEmail(u) == IF u = "user1" THEN "alice@example.com"
                ELSE IF u = "user2" THEN "bob@example.com" ELSE "admin@example.com"
SeedUsers == {[id |-> u, email |-> SeedEmail(u)] : u \in UserIds}

\* notifications_state of a freshly created store; fetching holds the GET requests whose
\* response has not been handled yet
EmptyStore == [notifications |-> <<>>, unread_count |-> 0, is_fetching |-> FALSE,
               fetching |-> 0, calls |-> 0]

NoRow == [sender_id |-> "-", recipient_type |-> "-", recipient_id |-> "-",
          status |-> "-", scheduled_at |-> "-"]

----------------------------------------------------------------------------
(* socket.io *)

Connected == {c \in Conns : connUser[c] # NoUser}

\* io.emit(...): every connected socket
io_emit == Connected

\* an emit to a room that reaches every connected socket
io_toEveryone(room) == Connected

\* io.to(room).emit(...): the sockets in the room
io_to(room) == {c \in Conns : room \in rooms[c]}

\* The connections a greeting's events are meant for: the sender's personal
\* channel and the recipient's (user or group) channel.  The server computes no such
\* set; it is recorded with each event for the properties to compare with.
TargetOf(row) == io_to(row.sender_id) \cup io_to(row.recipient_id)

\* Connections with no relation to a greeting: another identity, in no room but their own.
UnrelatedTo(row) ==
    {c \in Connected : /\ connUser[c] \notin {row.sender_id, row.recipient_id}
                       /\ rooms[c] \subseteq {connUser[c]}}

Event(name, kind, i, gid, row, nid, rcpts) ==
    [name |-> name, kind |-> kind, op |-> i, gid |-> gid, status |-> row.status,
     nid |-> nid, rcpts |-> rcpts,
     target |-> IF row = NoRow THEN {} ELSE TargetOf(row),
     unrelated |-> IF row = NoRow THEN {} ELSE rcpts \cap UnrelatedTo(row),
     bystanders |-> {}]

\* The record of a handler invocation: its inputs, the stored status of its greeting
\* before (pre) and after (post) its statement, the statement's outcome (res), the
\* handler's position (phase), its answer to the caller (reply), the row RETURNING gave
\* it, and the invocations on the same greeting that were still running (overlap).
Op(kind, c, gid, arg, pre, res, phase, reply, row) ==
    [kind |-> kind, conn |-> c, gid |-> gid, arg |-> arg, pre |-> pre, res |-> res,
     post |-> IF gid \in DOMAIN greetings' THEN greetings'[gid].status ELSE "absent",
     phase |-> phase, reply |-> reply, row |-> row, nres |-> "-",
     overlap |-> {i \in 1..Len(ops) : ops[i].phase # "done" /\ ops[i].gid = gid}]

\* an emit that overtakes the events emitted before it
EmittedAhead(log, e) == <<e>> \o log

\* emit calls of one handler reach a socket in the order they were made
Emitted(log, e) == Append(log, e)

Finish(i, reply) == [ops EXCEPT ![i].phase = "done", ![i].reply = reply]

PreStatus(gid) == IF gid \in DOMAIN greetings THEN greetings[gid].status ELSE "absent"

----------------------------------------------------------------------------
Init ==
    /\ connUser = [c \in Conns |-> NoUser]
    /\ rooms = [c \in Conns |-> {}]
    /\ greetings = SeedGreetings
    /\ notifications = {}
    /\ ops = <<>>
    /\ events = <<>>
    /\ handshake = [c \in Conns |-> NoToken]
    /\ lastReq = [c \in Conns |-> NoReqs]
    /\ messages = {}
    /\ users = SeedUsers
    /\ store = EmptyStore

----------------------------------------------------------------------------
(* Connections and rooms *)

\* io.use + io.on('connection'): the handshake resolved user u; the socket joins u's room
Connect(c, u) ==
    /\ connUser[c] = NoUser
    /\ connUser' = [connUser EXCEPT ![c] = u]
    /\ rooms' = [rooms EXCEPT ![c] = {u}]
    /\ handshake' = [handshake EXCEPT ![c] = TokenOf(u)]
    /\ lastReq' = [lastReq EXCEPT ![c] = NoReqs]
    /\ UNCHANGED <<greetings, notifications, ops, events, messages,
                   users, store>>

\* a middleware that only asks for some token
AdmittedUnverified(token, dbFails) == token # NoToken

\* io.use: next() without an error needs a token that jwt.verify accepts and whose
\* user_id the Users lookup finds; a throw of either ends in 'Authentication failed'
Admitted(token, dbFails) ==
    /\ token # NoToken
    /\ token.sig = "ok"
    /\ ~dbFails
    /\ token.user_id \in UserIds

\* A connection attempt with any handshake token.  A refused socket gets no
\* 'connection' callback: no room, no handler.
Handshake(c, token, dbFails) ==
    /\ connUser[c] = NoUser
    /\ handshake' = [handshake EXCEPT ![c] = token]
    /\ lastReq' = [lastReq EXCEPT ![c] = NoReqs]
    /\ IF Admitted(token, dbFails)
       THEN /\ connUser' = [connUser EXCEPT ![c] = token.user_id]
            /\ rooms' = [rooms EXCEPT ![c] = {token.user_id}]
       ELSE UNCHANGED <<connUser, rooms>>
    /\ UNCHANGED <<greetings, notifications, ops, events, messages,
                   users, store>>

\* a disconnect that leaves the socket in its rooms
DisconnectKeepsRooms(c) ==
    /\ connUser[c] # NoUser
    /\ connUser' = [connUser EXCEPT ![c] = NoUser]
    /\ rooms' = rooms
    /\ handshake' = [handshake EXCEPT ![c] = NoToken]
    /\ lastReq' = [lastReq EXCEPT ![c] = NoReqs]
    /\ UNCHANGED <<greetings, notifications, ops, events, messages,
                   users, store>>

\* socket.io removes a disconnected socket from all of its rooms
Disconnect(c) ==
    /\ connUser[c] # NoUser
    /\ connUser' = [connUser EXCEPT ![c] = NoUser]
    /\ rooms' = [rooms EXCEPT ![c] = {}]
    /\ handshake' = [handshake EXCEPT ![c] = NoToken]
    /\ lastReq' = [lastReq EXCEPT ![c] = NoReqs]
    /\ UNCHANGED <<greetings, notifications, ops, events, messages,
                   users, store>>

\* a join_group that does not reach a broadcast whose insert is already in flight
JoinGroupDeferred(c, group_id) ==
    /\ connUser[c] # NoUser
    /\ rooms' = IF \E i \in 1..Len(ops) : ops[i].phase = "emit" /\ ops[i].gid = group_id
                THEN rooms
                ELSE [rooms EXCEPT ![c] = @ \cup {group_id}]
    /\ lastReq' = [lastReq EXCEPT ![c][group_id] = "join"]
    /\ UNCHANGED <<connUser, greetings, notifications, ops, events, handshake, messages,
                   users, store>>

\* socket.on('join_group'): socket.join(group_id), whatever the id names
JoinGroup(c, group_id) ==
    /\ connUser[c] # NoUser
    /\ rooms' = [rooms EXCEPT ![c] = @ \cup {group_id}]
    /\ lastReq' = [lastReq EXCEPT ![c][group_id] = "join"]
    /\ UNCHANGED <<connUser, greetings, notifications, ops, events, handshake, messages,
                   users, store>>

\* a leave_group that keeps the socket in the room
LeaveGroupStays(c, group_id) ==
    /\ connUser[c] # NoUser
    /\ rooms' = rooms
    /\ lastReq' = [lastReq EXCEPT ![c][group_id] = "leave"]
    /\ UNCHANGED <<connUser, greetings, notifications, ops, events, handshake, messages,
                   users, store>>

\* socket.on('leave_group'): socket.leave(group_id)
LeaveGroup(c, group_id) ==
    /\ connUser[c] # NoUser
    /\ rooms' = [rooms EXCEPT ![c] = @ \ {group_id}]
    /\ lastReq' = [lastReq EXCEPT ![c][group_id] = "leave"]
    /\ UNCHANGED <<connUser, greetings, notifications, ops, events, handshake, messages,
                   users, store>>

----------------------------------------------------------------------------
(* The write paths *)

\* a handler that goes on after a failed statement as if it had succeeded
RejectedNever(res) == FALSE

\* `await pool.query(...)` throws into the handler's catch block when the statement fails
Rejected(res) == res = "fail"

\* a creation that writes a Notification whatever the recipient is
NotifiesRecipientAlways(row) == TRUE

\* `if (validation.data.recipient_type === 'user')`: only a user recipient is notified
NotifiesRecipient(row) == row.recipient_type = "user"

\* zod: status is z.enum(['sent','pending','delivered','failed'])
StatusValid(status) == status \in Statuses

\* socket.on('update_greeting_status'), up to and including its UPDATE ... RETURNING *
UpdateGreetingStatus(c, greeting_id, status, dbFails) ==
    /\ connUser[c] # NoUser
    /\ Len(ops) < MaxOps
    /\ LET pre == PreStatus(greeting_id)
           res == IF dbFails THEN "fail" ELSE IF pre = "absent" THEN "none" ELSE "ok"
       IN  /\ greetings' = IF res = "ok"
                           THEN [greetings EXCEPT ![greeting_id].status = status]
                           ELSE greetings
           /\ ops' = Append(ops, Op("update_greeting_status", c, greeting_id, status, pre, res,
                                    "emit", "-",
                                    IF res = "ok" THEN greetings'[greeting_id] ELSE NoRow))
    /\ UNCHANGED <<connUser, rooms, notifications, events, handshake, lastReq, messages,
                   users, store>>

\* ... and the rest of the handler: io.emit(`greeting_${greeting_id}_status`) when a row
\* came back, nothing when none did, socket.emit('error') from the catch block
UpdateGreetingStatusEmit(i) ==
    /\ i \in 1..Len(ops)
    /\ ops[i].kind = "update_greeting_status"
    /\ ops[i].phase = "emit"
    /\ IF Rejected(ops[i].res)
       THEN /\ ops' = Finish(i, "error")
            /\ UNCHANGED events
       ELSE IF ops[i].res = "ok"
       THEN /\ events' = Append(events,
                    Event(<<"greeting_", ops[i].gid, "_status">>, "status", i, ops[i].gid,
                          ops[i].row, 0, io_emit))
            /\ ops' = Finish(i, "nothing")
       ELSE /\ ops' = Finish(i, "nothing")
            /\ UNCHANGED events
    /\ UNCHANGED <<connUser, rooms, greetings, notifications, handshake, lastReq, messages,
                   users, store>>

\* app.put('/api/greetings/:greeting_id'), up to and including its UPDATE ... RETURNING *.
\* status "undefined": the body carries no status and the row keeps its own.
PutGreeting(greeting_id, status, dbFails) ==
    /\ Len(ops) < MaxOps
    /\ LET pre == PreStatus(greeting_id)
           res == IF dbFails THEN "fail" ELSE IF pre = "absent" THEN "none" ELSE "ok"
       IN  IF status # "undefined" /\ ~StatusValid(status)
           THEN /\ UNCHANGED greetings
                /\ ops' = Append(ops, Op("put_greeting", 0, greeting_id, status, pre, "invalid",
                                         "done", "400", NoRow))
           ELSE /\ greetings' = IF res = "ok" /\ status # "undefined"
                                THEN [greetings EXCEPT ![greeting_id].status = status]
                                ELSE greetings
                /\ ops' = Append(ops, Op("put_greeting", 0, greeting_id, status, pre, res,
                                         "emit", "-",
                                         IF res = "ok" THEN greetings'[greeting_id] ELSE NoRow))
    /\ UNCHANGED <<connUser, rooms, notifications, events, handshake, lastReq, messages,
                   users, store>>

\* ... and the rest: 404 when no row came back, else io.emit(`greeting_${greeting_id}_updated`)
\* and the row as the answer; 500 from the catch block
PutGreetingEmit(i) ==
    /\ i \in 1..Len(ops)
    /\ ops[i].kind = "put_greeting"
    /\ ops[i].phase = "emit"
    /\ IF Rejected(ops[i].res)
       THEN /\ ops' = Finish(i, "500")
            /\ UNCHANGED events
       ELSE IF ops[i].res = "none"
       THEN /\ ops' = Finish(i, "404")
            /\ UNCHANGED events
       ELSE /\ events' = Append(events,
                    Event(<<"greeting_", ops[i].gid, "_updated">>, "status", i, ops[i].gid,
                          ops[i].row, 0, io_emit))
            /\ ops' = Finish(i, "200")
    /\ UNCHANGED <<connUser, rooms, greetings, notifications, handshake, lastReq, messages,
                   users, store>>

\* a handler that lets every role moderate
NotAdminNever(u) == FALSE

\* socket.user.role !== 'admin'
NotAdmin(u) == Role(u) # "admin"

\* socket.on('admin_moderate'): the role check, then DELETE for 'deleted', UPDATE to 'sent'
\* for 'approved', no statement for any other action (the broadcast follows at once)
AdminModerate(c, greeting_id, action, dbFails) ==
    /\ connUser[c] # NoUser
    /\ Len(ops) < MaxOps
    /\ LET pre == PreStatus(greeting_id)
           res == IF dbFails THEN "fail" ELSE IF pre = "absent" THEN "none" ELSE "ok"
       IN  IF NotAdmin(connUser[c])
           THEN /\ UNCHANGED <<greetings, events>>
                /\ ops' = Append(ops, Op("admin_moderate", c, greeting_id, action, pre, "denied",
                                         "done", "error", NoRow))
           ELSE IF action = "deleted"
           THEN /\ greetings' = IF res = "ok"
                                THEN [g \in DOMAIN greetings \ {greeting_id} |-> greetings[g]]
                                ELSE greetings
                /\ ops' = Append(ops, Op("admin_moderate", c, greeting_id, action, pre, res,
                                         "emit", "-", NoRow))
                /\ UNCHANGED events
           ELSE IF action = "approved"
           THEN /\ greetings' = IF res = "ok"
                                THEN [greetings EXCEPT ![greeting_id].status = "sent"]
                                ELSE greetings
                /\ ops' = Append(ops, Op("admin_moderate", c, greeting_id, action, pre, res,
                                         "emit", "-", NoRow))
                /\ UNCHANGED events
           ELSE /\ UNCHANGED greetings
                /\ ops' = Append(ops, Op("admin_moderate", c, greeting_id, action, pre, "nostmt",
                                         "done", "nothing", NoRow))
                /\ events' = Append(events,
                        Event(<<"admin_moderation_action">>, "moderation", Len(ops) + 1,
                              greeting_id, NoRow, 0, io_emit))
    /\ UNCHANGED <<connUser, rooms, notifications, handshake, lastReq, messages,
                   users, store>>

\* ... and the rest: io.emit('admin_moderation_action'), whether or not a row was touched;
\* socket.emit('error') from the catch block
AdminModerateEmit(i) ==
    /\ i \in 1..Len(ops)
    /\ ops[i].kind = "admin_moderate"
    /\ ops[i].phase = "emit"
    /\ IF Rejected(ops[i].res)
       THEN /\ ops' = Finish(i, "error")
            /\ UNCHANGED events
       ELSE /\ events' = Append(events,
                    Event(<<"admin_moderation_action">>, "moderation", i, ops[i].gid,
                          NoRow, 0, io_emit))
            /\ ops' = Finish(i, "nothing")
    /\ UNCHANGED <<connUser, rooms, greetings, notifications, handshake, lastReq, messages,
                   users, store>>

\* app.post('/api/greetings'), up to and including INSERT INTO Greetings ... RETURNING *.
\* The stored status is validation.data.status; a duplicate id violates the primary key.
PostGreeting(id, sender_id, recipient, status, scheduled_at, dbFails) ==
    /\ Len(ops) < MaxOps
    /\ LET pre == PreStatus(id)
           res == IF dbFails \/ pre # "absent" THEN "fail" ELSE "ok"
           row == [sender_id |-> sender_id, recipient_type |-> recipient[1],
                   recipient_id |-> recipient[2], status |-> status,
                   scheduled_at |-> scheduled_at]
       IN  IF ~StatusValid(status)
           THEN /\ UNCHANGED greetings
                /\ ops' = Append(ops, Op("post_greeting", 0, id, status, pre, "invalid",
                                         "done", "400", NoRow))
           ELSE /\ greetings' = IF res = "ok"
                                THEN [g \in DOMAIN greetings \cup {id} |->
                                        IF g = id THEN row ELSE greetings[g]]
                                ELSE greetings
                /\ ops' = Append(ops, Op("post_greeting", 0, id, status, pre, res,
                                         "created", "-",
                                         IF res = "ok" THEN row ELSE NoRow))
    /\ UNCHANGED <<connUser, rooms, notifications, events, handshake, lastReq, messages,
                   users, store>>

\* ... then io.emit('greeting_created') and, for a user recipient,
\* INSERT INTO Notifications; a group recipient is answered 201 at once
PostGreetingCreated(i, dbFails) ==
    /\ i \in 1..Len(ops)
    /\ ops[i].kind = "post_greeting"
    /\ ops[i].phase = "created"
    /\ IF Rejected(ops[i].res)
       THEN /\ ops' = Finish(i, "500")
            /\ UNCHANGED <<events, notifications>>
       ELSE /\ events' = Append(events,
                    Event(<<"greeting_created">>, "created", i, ops[i].gid, ops[i].row, 0,
                          io_emit))
            /\ IF NotifiesRecipient(ops[i].row)
               THEN /\ notifications' =
                        IF dbFails THEN notifications
                        ELSE notifications \cup
                               {[id |-> i, user_id |-> ops[i].row.recipient_id,
                                 greeting_id |-> ops[i].gid, read_at |-> "null"]}
                    /\ ops' = [ops EXCEPT ![i].phase = "notify",
                                          ![i].nres = IF dbFails THEN "fail" ELSE "ok"]
               ELSE /\ ops' = Finish(i, "201")
                    /\ UNCHANGED notifications
    /\ UNCHANGED <<connUser, rooms, greetings, handshake, lastReq, messages,
                   users, store>>

\* ... then io.to(recipient_id).emit('notification') and 201; 500 from the catch block
PostGreetingNotify(i) ==
    /\ i \in 1..Len(ops)
    /\ ops[i].kind = "post_greeting"
    /\ ops[i].phase = "notify"
    /\ IF Rejected(ops[i].nres)
       THEN /\ ops' = Finish(i, "500")
            /\ UNCHANGED events
       ELSE /\ events' = Emitted(events,
                    Event(<<"notification">>, "notification", i, ops[i].gid, ops[i].row, i,
                          io_to(ops[i].row.recipient_id)))
            /\ ops' = Finish(i, "201")
    /\ UNCHANGED <<connUser, rooms, greetings, notifications, handshake, lastReq, messages,
                   users, store>>

\* socket.on('send_group_message'), up to and including INSERT INTO GroupChatMessages.
\* group_id and sender_id are the client's; the table references Groups and Users.
SendGroupMessage(c, group_id, sender_id, valid, dbFails) ==
    /\ connUser[c] # NoUser
    /\ Len(ops) < MaxOps
    /\ UNCHANGED greetings
    /\ LET res == IF dbFails \/ group_id \notin GroupIds \/ sender_id \notin UserIds
                  THEN "fail" ELSE "ok"
       IN  IF ~valid
           THEN /\ ops' = Append(ops, Op("send_group_message", c, group_id, sender_id, "-",
                                         "invalid", "done", "error", NoRow))
                /\ UNCHANGED messages
           ELSE /\ messages' = IF res = "ok"
                               THEN messages \cup {[id |-> Len(ops) + 1, group_id |-> group_id,
                                                     sender_id |-> sender_id]}
                               ELSE messages
                /\ ops' = Append(ops, Op("send_group_message", c, group_id, sender_id, "-",
                                         res, "emit", "-", NoRow))
    /\ UNCHANGED <<connUser, rooms, notifications, events, handshake, lastReq,
                   users, store>>

\* the connections whose last message about a room was join_group
JoinedBy(room) == {c \in Connected : lastReq[c][room] = "join"}

\* ... then io.to(group_id).emit('group_message'); socket.emit('error') from the catch block
SendGroupMessageEmit(i) ==
    /\ i \in 1..Len(ops)
    /\ ops[i].kind = "send_group_message"
    /\ ops[i].phase = "emit"
    /\ IF Rejected(ops[i].res)
       THEN /\ ops' = Finish(i, "error")
            /\ UNCHANGED events
       ELSE /\ events' = Append(events,
                    [Event(<<"group_message">>, "group_message", i, ops[i].gid, NoRow, i,
                           io_to(ops[i].gid))
                     EXCEPT !.target = JoinedBy(ops[i].gid),
                            !.bystanders = Connected \ JoinedBy(ops[i].gid)])
            /\ ops' = Finish(i, "nothing")
    /\ UNCHANGED <<connUser, rooms, greetings, notifications, handshake, lastReq, messages,
                   users, store>>

\* authenticateToken: 401 without a token, 403 from the catch block when jwt.verify or
\* the Users lookup throws, 401 when the lookup finds no user, otherwise next()
authenticateToken(token, dbFails) ==
    IF token = NoToken THEN "401"
    ELSE IF token.sig # "ok" \/ dbFails THEN "403"
    ELSE IF token.user_id \notin UserIds THEN "401"
    ELSE "next"

\* new Date().toISOString() of the n-th request
Now(n) == "t" \o ToString(n)

\* the mark-read requests made so far
Reads == {i \in 1..Len(ops) : ops[i].kind = "mark_read"}

\* app.post('/api/notifications/:notification_id/mark-read'): authenticateToken, then
\* UPDATE Notifications SET read_at = $1 WHERE id = $2 AND user_id = $3 RETURNING *
\* with read_at || now.  The middleware's lookup reads Users only, which no action here
\* writes, so it is taken in one step with the statement.
MarkRead(token, notification_id, read_at, authFails, dbFails) ==
    /\ Cardinality(Reads) < MaxReads
    /\ UNCHANGED greetings
    /\ LET verdict == authenticateToken(token, authFails)
           mine == {n \in notifications :
                        n.id = notification_id /\ n.user_id = token.user_id}
           res == IF dbFails THEN "fail" ELSE IF mine = {} THEN "none" ELSE "ok"
           value == IF read_at = "null" THEN Now(Len(ops) + 1) ELSE read_at
       IN  IF verdict # "next"
           THEN /\ ops' = Append(ops, Op("mark_read", 0, "-", token.sig, "-",
                                         "unauthenticated", "done", verdict, NoRow))
                /\ UNCHANGED notifications
           ELSE /\ notifications' =
                      IF res = "ok"
                      THEN (notifications \ mine)
                             \cup {[n EXCEPT !.read_at = value] : n \in mine}
                      ELSE notifications
                /\ ops' = Append(ops, Op("mark_read", 0, "-", token.sig, "-", res, "reply",
                                         "-", NoRow))
    /\ UNCHANGED <<connUser, rooms, events, handshake, lastReq, messages,
                   users, store>>

\* ... then 404 when RETURNING gave no row, 200 with the row, 500 from the catch block
MarkReadReply(i) ==
    /\ i \in 1..Len(ops)
    /\ ops[i].kind = "mark_read"
    /\ ops[i].phase = "reply"
    /\ ops' = Finish(i, IF Rejected(ops[i].res) THEN "500"
                        ELSE IF ops[i].res = "none" THEN "404" ELSE "200")
    /\ UNCHANGED <<connUser, rooms, greetings, notifications, events, handshake, lastReq,
                   messages,
                   users, store>>

\* String.prototype.trim and toLowerCase on the e-mail addresses a registration may carry
trim(e) == IF e = " bob@example.com " THEN "bob@example.com" ELSE e
toLowerCase(e) == IF e = "Bob@Example.com" THEN "bob@example.com"
                  ELSE IF e = "New@Example.com" THEN "new@example.com" ELSE e

\* z.string().email(): letters of either case, no surrounding whitespace
EmailValid(e) == trim(e) = e

\* app.post('/api/auth/register'), up to and including SELECT id FROM Users WHERE
\* email = $1, which compares the address as the request carries it.  pre records whether
\* the address, normalised as it would be stored, was registered when the request came.
Register(id, email, dbFails) ==
    /\ Len(ops) < MaxOps
    /\ UNCHANGED greetings
    /\ LET pre == IF \E u \in users : u.email = toLowerCase(trim(email))
                  THEN "taken" ELSE "free"
           res == IF dbFails THEN "fail"
                  ELSE IF \E u \in users : u.email = email THEN "exists" ELSE "none"
       IN  IF ~EmailValid(email)
           THEN ops' = Append(ops, Op("register", 0, id, email, pre, "invalid", "done", "400",
                                      NoRow))
           ELSE ops' = Append(ops, Op("register", 0, id, email, pre, res, "select", "-",
                                      NoRow))
    /\ UNCHANGED <<connUser, rooms, notifications, events, handshake, lastReq, messages,
                   users, store>>

\* ... then 409 when the SELECT found a row, else INSERT INTO Users with
\* email.toLowerCase().trim(); id is the primary key and email is UNIQUE
RegisterInsert(i, dbFails) ==
    /\ i \in 1..Len(ops)
    /\ ops[i].kind = "register"
    /\ ops[i].phase = "select"
    /\ IF Rejected(ops[i].res)
       THEN ops' = Finish(i, "500") /\ UNCHANGED users
       ELSE IF ops[i].res = "exists"
       THEN ops' = Finish(i, "409") /\ UNCHANGED users
       ELSE LET row == [id |-> ops[i].gid, email |-> trim(toLowerCase(ops[i].arg))]
                nres == IF dbFails THEN "fail"
                        ELSE IF \E u \in users : u.id = row.id \/ u.email = row.email
                        THEN "unique" ELSE "ok"
            IN  /\ users' = IF nres = "ok" THEN users \cup {row} ELSE users
                /\ ops' = [ops EXCEPT ![i].phase = "insert", ![i].nres = nres]
    /\ UNCHANGED <<connUser, rooms, greetings, notifications, events, handshake, lastReq,
                   messages, store>>

\* ... then 201 with the token, or 500 from the catch block (a constraint violation
\* or any other failure of the INSERT)
RegisterReply(i) ==
    /\ i \in 1..Len(ops)
    /\ ops[i].kind = "register"
    /\ ops[i].phase = "insert"
    /\ ops' = Finish(i, IF ops[i].nres = "ok" THEN "201" ELSE "500")
    /\ UNCHANGED <<connUser, rooms, greetings, notifications, events, handshake, lastReq,
                   messages, users, store>>

----------------------------------------------------------------------------
(* The client store *)

\* the user the store is signed in as
StoreUser == "user2"

RECURSIVE Descending(_)
\* rows in descending order of id, which grows with created_at
Descending(rows) ==
    IF rows = {} THEN <<>>
    ELSE LET top == CHOOSE r \in rows : \A q \in rows : q.id <= r.id
         IN  <<top>> \o Descending(rows \ {top})

\* app.get('/api/notifications'): the user's rows, ORDER BY created_at desc
ListNotifications(u) == Descending({n \in notifications : n.user_id = u})

\* response.data.filter(n => !n.read_at).length
Unread(list) == Cardinality({k \in DOMAIN list : list[k].read_at = "null"})

\* fetch_notifications, up to the axios.get
FetchNotifications ==
    /\ store.calls < MaxCalls
    /\ store' = [store EXCEPT !.is_fetching = TRUE, !.fetching = @ + 1, !.calls = @ + 1]
    /\ UNCHANGED <<connUser, rooms, greetings, notifications, ops, events, handshake,
                   lastReq, messages, users>>

\* ... then the response replaces the list and unread_count is counted from it; the
\* catch block only clears is_fetching
FetchNotificationsDone(fails) ==
    /\ store.fetching > 0
    /\ store' = IF fails
                THEN [store EXCEPT !.is_fetching = FALSE, !.fetching = @ - 1]
                ELSE [store EXCEPT !.notifications = ListNotifications(StoreUser),
                                   !.unread_count = Unread(ListNotifications(StoreUser)),
                                   !.is_fetching = FALSE, !.fetching = @ - 1]
    /\ UNCHANGED <<connUser, rooms, greetings, notifications, ops, events, handshake,
                   lastReq, messages, users>>

\* mark_notification_read: findIndex; when found, read_at becomes now and unread_count
\* goes down by one
mark_notification_read(notificationId) ==
    /\ store.calls < MaxCalls
    /\ LET found == {k \in DOMAIN store.notifications :
                        store.notifications[k].id = notificationId}
       IN  IF found # {}
           THEN LET index == CHOOSE k \in found : \A j \in found : k <= j
                IN  store' = [store EXCEPT
                                 !.notifications[index].read_at = Now(store.calls + 1),
                                 !.unread_count = @ - 1,
                                 !.calls = @ + 1]
           ELSE store' = [store EXCEPT !.calls = @ + 1]
    /\ UNCHANGED <<connUser, rooms, greetings, notifications, ops, events, handshake,
                   lastReq, messages, users>>

----------------------------------------------------------------------------
(* Specifications *)

StatusInputs == Statuses \cup {"undefined"}
Actions == {"deleted", "approved", "rejected"}

\* connections and rooms alone
NextRooms ==
    \/ \E c \in Conns, u \in UserIds : Connect(c, u)
    \/ \E c \in Conns : Disconnect(c)
    \/ \E c \in Conns, r \in RoomIds : JoinGroup(c, r)
    \/ \E c \in Conns, r \in RoomIds : LeaveGroup(c, r)

SpecRooms == Init /\ [][NextRooms]_vars

\* status changes of the stored greetings
Next ==
    \/ \E c \in Conns : Connect(c, SlotUser(c))
    \/ \E c \in Conns : Disconnect(c)
    \/ \E c \in Conns, g \in GreetingIds, s \in Statuses, f \in BOOLEAN :
            UpdateGreetingStatus(c, g, s, f)
    \/ \E i \in 1..MaxOps : UpdateGreetingStatusEmit(i)
    \/ \E g \in GreetingIds, s \in StatusInputs, f \in BOOLEAN : PutGreeting(g, s, f)
    \/ \E i \in 1..MaxOps : PutGreetingEmit(i)
    \/ \E c \in Conns, g \in GreetingIds, a \in Actions, f \in BOOLEAN :
            AdminModerate(c, g, a, f)
    \/ \E i \in 1..MaxOps : AdminModerateEmit(i)

Spec == Init /\ [][Next]_vars

\* greeting creation, every input
NextCreate ==
    \/ \E c \in Conns : Connect(c, SlotUser(c))
    \/ \E c \in Conns : Disconnect(c)
    \/ \E g \in GreetingIds, u \in Senders, r \in Recipients, s \in StatusInputs,
          t \in Schedules, f \in BOOLEAN : PostGreeting(g, u, r, s, t, f)
    \/ \E i \in 1..MaxOps, f \in BOOLEAN : PostGreetingCreated(i, f)
    \/ \E i \in 1..MaxOps : PostGreetingNotify(i)

SpecCreate == Init /\ [][NextCreate]_vars

\* greeting creation and its notification: immediate greetings (status sent, unscheduled)
NextNotify ==
    \/ \E c \in Conns : Connect(c, SlotUser(c))
    \/ \E c \in Conns : Disconnect(c)
    \/ \E g \in CreateIds, u \in Senders, r \in Recipients, f \in BOOLEAN :
            PostGreeting(g, u, r, "sent", "null", f)
    \/ \E i \in 1..MaxOps, f \in BOOLEAN : PostGreetingCreated(i, f)
    \/ \E i \in 1..MaxOps : PostGreetingNotify(i)

SpecNotify == Init /\ [][NextNotify]_vars

\* group chat: a connection of user1 and one of user1 or user2 join and leave group1's
\* room and post to group1
ChatUsers(c) == IF c = 1 THEN {"user1"} ELSE {"user1", "user2"}
\* <<payload passes validation, the INSERT throws>>
ChatOutcomes == {<<TRUE, FALSE>>, <<TRUE, TRUE>>, <<FALSE, FALSE>>}

NextChat ==
    \/ \E c \in Conns : \E u \in ChatUsers(c) : Connect(c, u)
    \/ \E c \in Conns : Disconnect(c)
    \/ \E c \in Conns, r \in GroupIds : JoinGroup(c, r)
    \/ \E c \in Conns, r \in GroupIds : LeaveGroup(c, r)
    \/ \E c \in Conns, g \in GroupIds, u \in Senders, o \in ChatOutcomes :
            SendGroupMessage(c, g, u, o[1], o[2])
    \/ \E i \in 1..MaxOps : SendGroupMessageEmit(i)

SpecChat == Init /\ [][NextChat]_vars

\* group chat whose inserts succeed: joins, leaves and disconnects between a message's
\* submission and its broadcast
NextResolve ==
    \/ \E c \in Conns : Connect(c, SlotUser(c))
    \/ \E c \in Conns : Disconnect(c)
    \/ \E c \in Conns, r \in GroupIds : JoinGroup(c, r)
    \/ \E c \in Conns, r \in GroupIds : LeaveGroup(c, r)
    \/ \E c \in Conns, g \in GroupIds, u \in Senders :
            SendGroupMessage(c, g, u, TRUE, FALSE)
    \/ \E i \in 1..MaxOps : SendGroupMessageEmit(i)

SpecResolve == Init /\ [][NextResolve]_vars

\* moderation requests from user2's and admin1's connections
NextModerate ==
    \/ \E c \in Conns : Connect(c, SlotUser(c))
    \/ \E c \in Conns : Disconnect(c)
    \/ \E c \in Conns, g \in {"greet2", "greet5"}, a \in Actions, f \in BOOLEAN :
            AdminModerate(c, g, a, f)
    \/ \E i \in 1..MaxOps : AdminModerateEmit(i)

SpecModerate == Init /\ [][NextModerate]_vars

\* connection attempts with any token, and what a connection can then do; the first
\* connection tries no token, a forged one and user2's, the second admin1's and that of
\* a user who does not exist
TokensAt(c) == {t \in Tokens : c = 1 <=> t.user_id \in {"-", "user1", "user2"}}

NextAuth ==
    \/ \E c \in Conns, f \in BOOLEAN : \E t \in TokensAt(c) : Handshake(c, t, f)
    \/ \E c \in Conns : Disconnect(c)
    \/ \E c \in Conns : UpdateGreetingStatus(c, "greet2", "sent", FALSE)
    \/ \E i \in 1..MaxOps : UpdateGreetingStatusEmit(i)

SpecAuth == Init /\ [][NextAuth]_vars

\* a greeting for user2 is created and its notification marked read, with any token
ReadAts == {"null", "t0"}

NextRead ==
    \/ PostGreeting("greet5", "user1", <<"user", "user2">>, "sent", "null", FALSE)
    \/ \E i \in 1..MaxOps : PostGreetingCreated(i, FALSE)
    \/ \E i \in 1..MaxOps : PostGreetingNotify(i)
    \/ \E t \in Tokens, n \in 1..MaxOps, r \in ReadAts, a, f \in BOOLEAN :
            MarkRead(t, n, r, a, f)
    \/ \E i \in 1..(MaxOps + MaxReads) : MarkReadReply(i)

SpecRead == Init /\ [][NextRead]_vars

\* registrations with a seeded address, its spellings, and a new address
RegisterIds == {"user5", "user6"}
RegisterEmails == {"bob@example.com", "Bob@Example.com", " bob@example.com ",
                   "new@example.com", "New@Example.com"}

NextRegister ==
    \/ \E id \in RegisterIds, e \in RegisterEmails, f \in BOOLEAN : Register(id, e, f)
    \/ \E i \in 1..MaxOps, f \in BOOLEAN : RegisterInsert(i, f)
    \/ \E i \in 1..MaxOps : RegisterReply(i)

SpecRegister == Init /\ [][NextRegister]_vars

\* greetings for user2 are created while user2's store fetches and marks notifications
NextStore ==
    \/ \E id \in CreateIds : PostGreeting(id, "user1", <<"user", "user2">>, "sent", "null",
                                           FALSE)
    \/ \E i \in 1..MaxOps : PostGreetingCreated(i, FALSE)
    \/ \E i \in 1..MaxOps : PostGreetingNotify(i)
    \/ FetchNotifications
    \/ \E f \in BOOLEAN : FetchNotificationsDone(f)
    \/ \E n \in 1..MaxOps : mark_notification_read(n)

SpecStore == Init /\ [][NextStore]_vars

----------------------------------------------------------------------------
(* Properties *)

OpIds == 1..Len(ops)
EventIds == 1..Len(events)
EventsOf(i) == {k \in EventIds : events[k].op = i}
IsDone(i) == ops[i].phase = "done"

\* The invocations that ask for a status: update_greeting_status, PUT with a status,
\* admin_moderate 'approved'
StatusAttempt(i) ==
    \/ ops[i].kind = "update_greeting_status"
    \/ ops[i].kind = "put_greeting" /\ ops[i].arg \in Statuses
    \/ ops[i].kind = "admin_moderate" /\ ops[i].arg = "approved" /\ ops[i].res # "denied"

RequestedStatus(i) == IF ops[i].kind = "admin_moderate" THEN "sent" ELSE ops[i].arg

ToldOfFailure(i) == ops[i].reply \in {"error", "400", "404", "500"}

Lifecycle == {<<"pending", "sent">>, <<"sent", "delivered">>,
              <<"pending", "failed">>, <<"sent", "failed">>}

\* C1: a greeting status-change event (from update_greeting_status or PUT) is received
\* only by connections that are, at dispatch, in the sender's personal channel or in the
\* recipient's channel.
C1_StatusEventOnlyToTarget ==
    \A k \in EventIds :
        events[k].kind = "status" => events[k].rcpts \subseteq events[k].target

\* C2: the events of creating a greeting for a user recipient are received by no
\* unrelated connection, and the greeting_created event is received by the connections
\* of its target (the recipient's among them).
C2_CreationNotSeenByUnrelated ==
    \A k \in EventIds :
        (/\ events[k].kind \in {"created", "notification"}
         /\ ops[events[k].op].row.recipient_type = "user")
        => /\ events[k].unrelated = {}
           /\ events[k].kind = "created" => events[k].target \subseteq events[k].rcpts

\* C3: the only personal (user-id) channel a connection is ever in is its own.
C3_OnlyOwnPersonalChannel ==
    \A c \in Conns : rooms[c] \cap UserIds \subseteq {connUser[c]}

\* C4: every attempt to change the status of a delivered or failed greeting is rejected:
\* the stored status stays, the caller is told, no event is emitted.
C4_TerminalStatusesStay ==
    \A i \in OpIds :
        (StatusAttempt(i) /\ ops[i].pre \in {"delivered", "failed"} /\ IsDone(i))
        => /\ ops[i].post = ops[i].pre
           /\ ToldOfFailure(i)
           /\ EventsOf(i) = {}

\* C5: every change of a stored greeting's status is one of pending->sent,
\* sent->delivered, pending->failed, sent->failed.
C5_OnlyLifecycleTransitions ==
    [][\A g \in DOMAIN greetings \cap DOMAIN greetings' :
            greetings[g].status # greetings'[g].status
            => <<greetings[g].status, greetings'[g].status>> \in Lifecycle]_vars

\* C6: a created greeting is stored as pending exactly when scheduled_at is set and in the
\* future, and as sent otherwise, whatever status the client supplied.
C6_InitialStatusFromSchedule ==
    \A i \in OpIds :
        (ops[i].kind = "post_greeting" /\ ops[i].res = "ok")
        => ops[i].post = IF ops[i].row.scheduled_at = "future" THEN "pending" ELSE "sent"

\* C7: of two concurrent attempts to give one greeting different statuses (the second
\* statement ran while the first handler had not finished), not both persist and emit:
\* either one is rejected, or together they emit a single event.
C7_ConcurrentAttemptsExclusive ==
    \A a, b \in OpIds :
        (/\ a \in ops[b].overlap
         /\ StatusAttempt(a) /\ StatusAttempt(b)
         /\ RequestedStatus(a) # RequestedStatus(b)
         /\ IsDone(a) /\ IsDone(b)
         /\ ops[a].res = "ok" /\ ops[b].res = "ok")
        => \/ ToldOfFailure(a) \/ ToldOfFailure(b)
           \/ Cardinality(EventsOf(a) \cup EventsOf(b)) = 1

\* C8: once an attempt has moved a pending greeting to sent, a later attempt to move it
\* to sent is rejected and emits nothing.
C8_SecondSendRejected ==
    \A a, b \in OpIds :
        (/\ a < b /\ ops[a].gid = ops[b].gid
         /\ StatusAttempt(a) /\ RequestedStatus(a) = "sent"
         /\ ops[a].pre = "pending" /\ ops[a].res = "ok"
         /\ StatusAttempt(b) /\ RequestedStatus(b) = "sent"
         /\ ops[b].pre = "sent" /\ ops[b].res # "fail" /\ IsDone(b))
        => /\ ToldOfFailure(b)
           /\ EventsOf(b) = {}

\* C9: when the UPDATE of update_greeting_status or PUT fails or matches no greeting, the
\* stored status is unchanged, no event is emitted and the caller is told.
C9_FailedWriteReported ==
    \A i \in OpIds :
        (/\ ops[i].kind \in {"update_greeting_status", "put_greeting"}
         /\ StatusAttempt(i)
         /\ ops[i].res \in {"fail", "none"}
         /\ IsDone(i))
        => /\ ops[i].post = ops[i].pre
           /\ EventsOf(i) = {}
           /\ ToldOfFailure(i)

\* C10: when the Notifications insert of a creation fails, no 'notification' event of
\* that creation is emitted and its Notification record (the request's own
\* notificationId) does not exist; and every 'notification' event carries a record
\* that is stored.
C10_NotificationAllOrNothing ==
    /\ \A i \in OpIds :
        (ops[i].kind = "post_greeting" /\ ops[i].nres = "fail")
        => /\ \A k \in EventsOf(i) : events[k].kind # "notification"
           /\ \A n \in notifications : n.id # i
    /\ \A k \in EventIds :
        events[k].kind = "notification"
        => \E n \in notifications :
              /\ n.id = events[k].nid
              /\ n.greeting_id = events[k].gid
              /\ n.user_id = ops[events[k].op].row.recipient_id

\* a creation whose Notifications insert failed has been answered while its recipient
\* is connected, and another creation's notification has been emitted
C10_Witness ==
    /\ \E i \in OpIds :
        /\ ops[i].kind = "post_greeting" /\ ops[i].nres = "fail" /\ IsDone(i)
        /\ \E c \in Conns : ops[i].row.recipient_id \in rooms[c]
    /\ \E k \in EventIds : events[k].kind = "notification" /\ events[k].rcpts # {}

\* C11: a creation answered 201 has made exactly one Notification row, for recipient_id
\* and unread, when the recipient is a user, and none when it is a group.
C11_OneNotificationPerUserGreeting ==
    \A i \in OpIds :
        (ops[i].kind = "post_greeting" /\ IsDone(i) /\ ops[i].reply = "201")
        => LET made == {n \in notifications : n.id = i \/ n.greeting_id = ops[i].gid}
           IN  IF ops[i].row.recipient_type = "user"
               THEN made = {[id |-> i, user_id |-> ops[i].row.recipient_id,
                             greeting_id |-> ops[i].gid, read_at |-> "null"]}
               ELSE made = {}

\* a user greeting and a group greeting have both been created and answered 201
C11_Witness ==
    \E i, j \in OpIds :
        /\ ops[i].kind = "post_greeting" /\ ops[i].reply = "201"
        /\ ops[i].row.recipient_type = "user"
        /\ ops[j].kind = "post_greeting" /\ ops[j].reply = "201"
        /\ ops[j].row.recipient_type = "group"

\* the events of a group's channel
GroupEvents == {k \in EventIds : events[k].kind \in {"group_message", "member_joined"}}

\* C12: a group message is observed by every connection whose last request about the
\* group, at dispatch, was a join (several connections of one user included), and by no
\* other connection.
C12_GroupMessageToJoinedOnly ==
    \A k \in EventIds :
        events[k].kind = "group_message" => events[k].rcpts = events[k].target

\* a message reached both connections of one user; another reached a joined connection
\* while a connected one that had not joined stood by
C12_Witness ==
    /\ \E k \in EventIds :
           /\ events[k].kind = "group_message" /\ events[k].rcpts = Conns
           /\ connUser[1] = connUser[2] /\ JoinedBy(events[k].gid) = Conns
    /\ \E k \in EventIds :
           /\ events[k].kind = "group_message"
           /\ events[k].rcpts # {} /\ events[k].bystanders # {}

\* C13: a connection is in a group's room exactly when its last request about the group
\* was a join, however many joins and leaves came before; a connection whose last request
\* was not a join is handed no event of the group.
C13_SubscriberIffLastIsJoin ==
    /\ \A c \in Conns, g \in GroupIds : g \in rooms[c] <=> lastReq[c][g] = "join"
    /\ \A k \in GroupEvents : events[k].rcpts \cap events[k].bystanders = {}

\* a connection that joined and then left stood by while a message went to the other
C13_Witness ==
    \E k \in GroupEvents, c \in Conns, g \in GroupIds :
        /\ lastReq[c][g] = "leave" /\ g \notin rooms[c]
        /\ events[k].gid = g /\ c \in events[k].bystanders /\ events[k].rcpts # {}
        /\ ops[events[k].op].phase = "done" /\ events[k].op = Len(ops)

\* the handshake token names an existing user and verifies
GoodToken(t) == t.sig = "ok" /\ t.user_id \in UserIds

\* C14: a connection exists only with a handshake token that verifies and names an
\* existing user, whose identity it then has; a connection attempt with any other token
\* is in no room, starts no handler invocation and is handed no event.
C14_OnlyVerifiedConnections ==
    [][/\ \A c \in Conns :
            /\ connUser'[c] # NoUser
                  => GoodToken(handshake'[c]) /\ connUser'[c] = handshake'[c].user_id
            /\ ~GoodToken(handshake'[c]) => connUser'[c] = NoUser /\ rooms'[c] = {}
       /\ Len(ops') > Len(ops) /\ ops'[Len(ops')].conn \in Conns
             => GoodToken(handshake[ops'[Len(ops')].conn])
       /\ Len(events') > Len(events)
             => \A c \in events'[Len(events')].rcpts : GoodToken(handshake[c])]_vars

\* one attempt was refused for its token while the other connection, in its own room,
\* wrote a status and was handed the broadcast
C14_Witness ==
    \E c, d \in Conns, k \in EventIds :
        /\ handshake[c] # NoToken /\ ~GoodToken(handshake[c]) /\ connUser[c] = NoUser
        /\ events[k].rcpts = {d} /\ ops[events[k].op].conn = d /\ ops[events[k].op].res = "ok"
        /\ rooms[d] = {connUser[d]}

\* C15: once the creation of a greeting with status sent for a user recipient has been
\* answered, and the recipient had a live connection that was handed its notification, the
\* stored status is delivered, no client having asked for it.
C15_DeliveredWhenRecipientOnline ==
    \A i \in OpIds :
        ( /\ ops[i].kind = "post_greeting" /\ IsDone(i) /\ ops[i].reply = "201"
          /\ ops[i].row.recipient_type = "user" /\ ops[i].row.status = "sent"
          /\ \E k \in EventsOf(i) : events[k].kind = "notification" /\ events[k].rcpts # {} )
        => greetings[ops[i].gid].status = "delivered"

\* C16: an administrator's moderation request that rejects a pending or sent greeting
\* leaves it stored as failed, and no moderation request removes a stored greeting.
C16_RejectionFailsNeverDeletes ==
    \A i \in OpIds :
        (ops[i].kind = "admin_moderate" /\ ops[i].res # "denied" /\ IsDone(i))
        => /\ (ops[i].arg = "rejected" /\ ops[i].pre \in {"pending", "sent"})
                 => ops[i].post = "failed"
           /\ ops[i].pre # "absent" => ops[i].post # "absent"

\* C17: every event was emitted by a handler invocation whose statement had changed a
\* stored row and committed; an invocation that wrote nothing emits nothing.
C17_EventOnlyAfterWrite ==
    \A k \in EventIds : ops[events[k].op].res = "ok"

\* the closed vocabulary of event kinds
EventKinds == {<<"greeting_created">>, <<"greeting_status_changed">>, <<"group_message">>,
               <<"member_joined">>, <<"moderation_action">>}

\* C19: the name of every emitted event is one of the five fixed kinds; none is put
\* together from data such as a greeting's id.
C19_ClosedEventVocabulary ==
    \A k \in EventIds : events[k].name \in EventKinds

\* C18: once a notification's read_at is not null, no step changes it.
C18_ReadAtSetOnce ==
    [][\A n \in notifications :
           n.read_at # "null"
           => \E m \in notifications' : m.id = n.id /\ m.read_at = n.read_at]_vars

\* C20: a mark-read request whose token does not verify is answered 401 and its
\* statement is not run.
C20_InvalidTokenIs401 ==
    \A i \in OpIds :
        (ops[i].kind = "mark_read" /\ ops[i].arg = "bad")
        => ops[i].reply = "401" /\ ops[i].res = "unauthenticated"

\* C21: a registration with a well-formed address that, letter case and surrounding
\* whitespace apart, was registered when the request came is answered 409 and creates no
\* user, unless the database itself broke down; and no two users share an address.
C21_DuplicateEmailIs409 ==
    /\ \A i \in OpIds :
           ( /\ ops[i].kind = "register" /\ IsDone(i)
             /\ EmailValid(ops[i].arg) /\ ops[i].pre = "taken"
             /\ ops[i].res # "fail" /\ ops[i].nres # "fail" )
           => ops[i].reply = "409" /\ ops[i].nres # "ok"
    /\ \A u, v \in users :
           toLowerCase(trim(u.email)) = toLowerCase(trim(v.email)) => u = v

\* C22: when the server emits a group_message, the connections that receive it are those
\* whose join_group for the group was the last thing they asked before the emit and that
\* are still connected, whatever they had asked when the message was submitted.
C22_SubscribersResolvedAtEmit ==
    [][\A c \in Conns :
           (Len(events') > Len(events) /\ events'[Len(events')].kind = "group_message")
           => LET e == events'[Len(events')]
              IN  c \in e.rcpts <=> (connUser[c] # NoUser /\ lastReq[c][e.gid] = "join")]_vars

\* A second message was submitted while the first was in flight.  A connection not joined
\* when the first was emitted received the second, and a connection joined when the first
\* was emitted did not: both changes came while the second message was in flight.
C22_Witness ==
    \E k1, k2 \in EventIds :
        /\ k1 < k2
        /\ events[k1].kind = "group_message" /\ events[k2].kind = "group_message"
        /\ events[k1].op \in ops[events[k2].op].overlap
        /\ events[k2].rcpts \ events[k1].target # {}
        /\ events[k1].target \ events[k2].rcpts # {}

\* C23: two group messages that one connection submitted for one group are observed, by
\* every connection that observes both, in the order of their submission.
C23_SubmissionOrderKept ==
    \A k1, k2 \in EventIds :
        ( /\ k1 < k2
          /\ events[k1].kind = "group_message" /\ events[k2].kind = "group_message"
          /\ events[k1].gid = events[k2].gid
          /\ ops[events[k1].op].conn = ops[events[k2].op].conn
          /\ events[k1].rcpts \cap events[k2].rcpts # {} )
        => events[k1].op < events[k2].op

C25_CreatedBeforeNotification ==
    \A i \in OpIds : \A k1, k2 \in EventsOf(i) :
        ( /\ events[k1].kind = "created" /\ events[k2].kind = "notification"
          /\ events[k1].rcpts \cap events[k2].rcpts # {} )
        => k1 < k2

\* a connection of the recipient observed both events of a creation
C25_Witness ==
    \E i \in OpIds : \E k1, k2 \in EventsOf(i) : \E c \in Conns :
        /\ ops[i].kind = "post_greeting" /\ ops[i].row.recipient_type = "user"
        /\ events[k1].kind = "created" /\ events[k2].kind = "notification"
        /\ c \in events[k1].rcpts \cap events[k2].rcpts
        /\ connUser[c] = ops[i].row.recipient_id

\* C26: an admin_moderate message from the connection of a user whose role is not admin
\* leaves the greeting as it was, emits no event and is answered with an error to that
\* connection.
C26_NonAdminModerationRefused ==
    \A i \in OpIds :
        (ops[i].kind = "admin_moderate" /\ Role(SlotUser(ops[i].conn)) # "admin")
        => /\ ops[i].post = ops[i].pre
           /\ EventsOf(i) = {}
           /\ IsDone(i) /\ ops[i].reply = "error"

\* user2's connection asked to delete a stored greeting, which is still stored, while
\* admin1's connection stood by and a moderation by admin1 was broadcast
C26_Witness ==
    \E i, j \in OpIds :
        /\ ops[i].kind = "admin_moderate" /\ SlotUser(ops[i].conn) = "user2"
        /\ ops[i].arg = "deleted" /\ ops[i].pre = "pending" /\ ops[i].gid \in DOMAIN greetings
        /\ ops[j].kind = "admin_moderate" /\ SlotUser(ops[j].conn) = "admin1"
        /\ EventsOf(j) # {}

\* C27: a group message is stored under the identity of the connection that submitted it.
C27_SenderIsConnectionIdentity ==
    [][\A m \in messages' \ messages :
           m.sender_id = connUser[ops'[Len(ops')].conn]]_vars

\* C28: a creation answered with a failure has stored no greeting row and emitted no
\* greeting_created event.
C28_FailedCreationLeavesNothing ==
    \A i \in OpIds :
        (ops[i].kind = "post_greeting" /\ IsDone(i) /\ ops[i].reply # "201")
        => /\ ops[i].res # "ok"
           /\ \A k \in EventsOf(i) : events[k].kind # "created"

\* C29: every live connection is in the room of its own identity.
C29_AlwaysInOwnChannel ==
    \A c \in Conns : connUser[c] # NoUser => connUser[c] \in rooms[c]

\* C30: the store's unread_count is the number of its notifications whose read_at is
\* unset, and is not negative.
C30_UnreadCountMatches ==
    /\ store.unread_count = Unread(store.notifications)
    /\ store.unread_count >= 0
====
